---- MODULE Spec2Model ----
(***************************************************************************)
(* A model of the two dependency-free readers of analyze_fc.py:            *)
(*   - _read_header / load_npy_matrix : the .npy array-file decoder        *)
(*   - load_xlsx_sheet                 : the .xlsx worksheet reader        *)
(* Each reader is a sequential program; one action is one step of it.      *)
(*                                                                         *)
(* A file is a sequence of cells.  A cell of kind "byte" is one byte; the  *)
(* cells of the header text are the tokens of the Python literal (a brace, *)
(* one "key: value," item, padding); a cell of kind "data" is four payload *)
(* bytes (one float32, or half a float64).  handle.read(n) reads n cells.  *)
(***************************************************************************)
EXTENDS Integers, Sequences, FiniteSets, TLC

\* ------------------------------------------------------------------ bounds
MaxDim == 2
MinDim == 2
MaxPayload == 10
SmallPayload == 3
MaxMajor == 3

Min(a, b) == IF a < b THEN a ELSE b

\* --------------------------------------------------------- Python values
\* A Python value: ty is its type, b a bool's value, num/den a number's value
\* (an int has den = 1), s a str's value, items a tuple's or list's entries.
PyScalar(ty, b, num, den, s) == [ty |-> ty, b |-> b, num |-> num, den |-> den, s |-> s]
PyVal(ty, b, num, den, s, items) ==
    [ty |-> ty, b |-> b, num |-> num, den |-> den, s |-> s, items |-> items]
PyAbsent == PyVal("absent", FALSE, 0, 1, "", <<>>)
PyNone == PyVal("none", FALSE, 0, 1, "", <<>>)
PyBool(b) == PyVal("bool", b, IF b THEN 1 ELSE 0, 1, "", <<>>)
PyInt(n) == PyVal("int", FALSE, n, 1, "", <<>>)
PyFloat(num, den) == PyVal("float", FALSE, num, den, "", <<>>)
PyStr(s) == PyVal("str", FALSE, 0, 1, s, <<>>)
PyTuple(items) == PyVal("tuple", FALSE, 0, 1, "", items)
PyList(items) == PyVal("list", FALSE, 0, 1, "", items)
Entry(v) == PyScalar(v.ty, v.b, v.num, v.den, v.s)
Lift(e) == PyVal(e.ty, e.b, e.num, e.den, e.s, <<>>)

IsInt(v) == v.ty \in {"int", "bool"}
IsNumber(v) == v.ty \in {"int", "bool", "float"}

\* bool(v): Python truthiness, as `if fortran_order:` evaluates it.
Truthy(v) ==
    CASE v.ty = "bool" -> v.b
      [] v.ty \in {"int", "float"} -> v.num # 0
      [] v.ty = "str" -> v.s # ""
      [] v.ty \in {"tuple", "list"} -> v.items # <<>>
      [] OTHER -> FALSE

\* a * b of two Python scalars; ty = "TypeError" when the operands do not
\* multiply.  str * int repeats the string: only its emptiness matters here.
PyMul(a, b) ==
    CASE IsInt(a) /\ IsInt(b) -> PyInt(a.num * b.num)
      [] IsNumber(a) /\ IsNumber(b) -> PyFloat(a.num * b.num, a.den * b.den)
      [] a.ty = "str" /\ IsInt(b) -> PyStr(IF b.num > 0 THEN a.s ELSE "")
      [] IsInt(a) /\ b.ty = "str" -> PyStr(IF a.num > 0 THEN b.s ELSE "")
      [] OTHER -> PyVal("TypeError", FALSE, 0, 1, "", <<>>)

\* A count check that refuses only a payload with too many elements.
PyNotEqualInt_OnlyMore(n, v) == IF IsNumber(v) THEN n * v.den > v.num ELSE TRUE

\* n != v for an int n (len(values)) and a Python value v.
PyNotEqualInt(n, v) == IF IsNumber(v) THEN n * v.den # v.num ELSE TRUE

\* ------------------------------------------------------------------ cells
Cell(k, v, py) == [k |-> k, v |-> v, py |-> py]
Byte(v) == Cell("byte", v, PyNone)
Data(v) == Cell("data", v, PyNone)
Tok(k) == Cell(k, 0, PyNone)
Item(k, py) == Cell(k, 0, py)
Bytes(seq) == [i \in 1..Len(seq) |-> Byte(seq[i])]

\* The first byte of a cell, for a read that takes a token or a payload word
\* as a byte of the length field, or a token as a word of the payload.
CharCode(c) ==
    CASE c.k \in {"byte", "data"} -> c.v
      [] c.k = "lbrace" -> 123
      [] c.k = "rbrace" -> 125
      [] c.k = "pad" -> 32
      [] OTHER -> 39

SUPPORTED_DTYPES == ("<f4" :> "f") @@ ("<f8" :> "d")
\* array(typecode).itemsize, in cells of four bytes
ItemCells(typecode) == IF typecode = "d" THEN 2 ELSE 1

MAGIC == Bytes(<<147, 78, 85, 77, 80, 89>>)

\* handle.read(n) at position pos: up to n cells, fewer at the end of the file.
Read(data, pos, n) == SubSeq(data, pos + 1, Min(pos + n, Len(data)))

RECURSIVE Pow256(_)
Pow256(i) == IF i = 0 THEN 1 ELSE 256 * Pow256(i - 1)

\* struct.unpack("<H", b)[0] and struct.unpack("<I", b)[0]: unsigned little-endian.
RECURSIVE Unpack(_)
Unpack(b) ==
    IF b = <<>> THEN 0
    ELSE Unpack(SubSeq(b, 1, Len(b) - 1)) + CharCode(b[Len(b)]) * Pow256(Len(b) - 1)

\* A reader that takes the length field of every supported version as "<H".
LenWidth_AlwaysTwo(major) == IF major \in {1, 2, 3} THEN 2 ELSE 0

\* The width of the header-length field of version major.x, 0 for an
\* unsupported major.
LenWidth(major) ==
    IF major = 1 THEN 2
    ELSE IF major \in {2, 3} THEN 4
    ELSE 0

\* ast.literal_eval(header_text).  Whitespace between tokens is insignificant;
\* "{" item* "}" is a dict display (a later item of a key wins), a single
\* literal token is that value, a bare name is refused with ValueError and
\* anything else (the empty text, a cut display, binary cells) is a
\* SyntaxError.
IsItem(c) == c.k \in {"descr", "shape", "fortran_order"}
RECURSIVE DictGet(_, _)
DictGet(toks, key) ==
    IF toks = <<>> THEN PyAbsent
    ELSE IF toks[Len(toks)].k = key THEN toks[Len(toks)].py
    ELSE DictGet(SubSeq(toks, 1, Len(toks) - 1), key)
Parsed(kind, descr, shape, fortran_order) ==
    [kind |-> kind, descr |-> descr, shape |-> shape, fortran_order |-> fortran_order]
NoHeader == Parsed("none", PyAbsent, PyAbsent, PyAbsent)
LiteralEval(text) ==
    LET toks == SelectSeq(text, LAMBDA c : c.k # "pad")
        n == Len(toks)
    IN  IF n >= 2 /\ toks[1].k = "lbrace" /\ toks[n].k = "rbrace"
           /\ \A i \in 2..(n - 1) : IsItem(toks[i])
        THEN Parsed("dict", DictGet(toks, "descr"), DictGet(toks, "shape"),
                    DictGet(toks, "fortran_order"))
        ELSE IF n = 1 /\ toks[1].k = "lit"
        THEN Parsed("value", PyAbsent, PyAbsent, PyAbsent)
        ELSE IF n = 1 /\ toks[1].k = "name"
        THEN Parsed("ValueError", PyAbsent, PyAbsent, PyAbsent)
        ELSE Parsed("SyntaxError", PyAbsent, PyAbsent, PyAbsent)

\* header.get(key) and header.get(key, default) of a dict
DictGetOr(v, default) == IF v.ty = "absent" THEN default ELSE v

\* values = array(typecode); values.frombytes(raw): one value per itemsize
\* bytes, in file order.  A float64 is two cells, low word first.
FromBytesFits(typecode, raw) == Len(raw) % ItemCells(typecode) = 0
FromBytes(typecode, raw) ==
    IF typecode = "d"
    THEN [i \in 1..(Len(raw) \div 2) |->
             CharCode(raw[2 * i - 1]) + 256 * CharCode(raw[2 * i])]
    ELSE [i \in 1..Len(raw) |-> CharCode(raw[i])]

\* A slice that takes its end bound as inclusive.
PySlice_Inclusive(seq, a, b) == SubSeq(seq, a + 1, Min(b + 1, Len(seq)))

\* values[a:b] of a Python sequence: a negative bound counts from the end,
\* both bounds are clamped to the sequence.
PySlice(seq, a, b) ==
    LET n == Len(seq)
        lo == IF a < 0 THEN (IF a + n < 0 THEN 0 ELSE a + n) ELSE Min(a, n)
        hi == IF b < 0 THEN (IF b + n < 0 THEN 0 ELSE b + n) ELSE Min(b, n)
    IN  SubSeq(seq, lo + 1, hi)

Verdict(e, m) == [exc |-> e, msg |-> m]
\* The checks without the one of fortran_order.
CheckHeader_NoFortran(fortran_order, shape, descr) ==
    IF ~(shape.ty = "tuple") \/ Len(shape.items) # 2
    THEN Verdict("NpyLoadError", "shape")
    ELSE IF descr.ty = "list" THEN Verdict("TypeError", "unhashable")
    ELSE IF ~(descr.ty = "str" /\ descr.s \in DOMAIN SUPPORTED_DTYPES)
    THEN Verdict("NpyLoadError", "descr")
    ELSE Verdict("", "")

\* The checks of load_npy_matrix on the header's fields, in the code's
\* order: the exception and the field its message names, "" when they pass.
CheckHeader(fortran_order, shape, descr) ==
    IF Truthy(fortran_order) THEN Verdict("NpyLoadError", "fortran_order")
    ELSE IF ~(shape.ty = "tuple") \/ Len(shape.items) # 2
    THEN Verdict("NpyLoadError", "shape")
    ELSE IF descr.ty = "list" THEN Verdict("TypeError", "unhashable")
    ELSE IF ~(descr.ty = "str" /\ descr.s \in DOMAIN SUPPORTED_DTYPES)
    THEN Verdict("NpyLoadError", "descr")
    ELSE Verdict("", "")

\* ------------------------------------------------------- the files read
\* A file as its writer laid it out: magic, version, the header length in
\* lenWidth little-endian bytes, the header text, the payload words.
RECURSIVE LittleEndian(_, _)
LittleEndian(n, w) ==
    IF w = 0 THEN <<>> ELSE <<n % 256>> \o LittleEndian(n \div 256, w - 1)

Layout(m) ==
    Bytes(m.magic) \o Bytes(m.version) \o Bytes(LittleEndian(m.lenValue, m.lenWidth))
        \o m.hdr.text \o [i \in 1..Len(m.words) |-> Data(m.words[i])]

Optional(k, py) == IF py.ty = "absent" THEN <<>> ELSE <<Item(k, py)>>
HeaderText(descr, fortran_order, shape) ==
    <<Tok("lbrace")>> \o Optional("descr", descr)
        \o Optional("fortran_order", fortran_order) \o Optional("shape", shape)
        \o <<Tok("rbrace"), Tok("pad")>>

\* A header as written: the dict display of the three fields, or some other text.
Hdr(descr, fortran_order, shape) ==
    [kind |-> "dict", descr |-> descr, fortran_order |-> fortran_order,
     shape |-> shape, text |-> HeaderText(descr, fortran_order, shape)]
OtherHdr(text) ==
    [kind |-> "other", descr |-> PyAbsent, fortran_order |-> PyAbsent,
     shape |-> PyAbsent, text |-> text]

Written(magic, version, lenWidth, lenValue, hdr, words) ==
    [magic |-> magic, version |-> version, lenWidth |-> lenWidth,
     lenValue |-> lenValue, hdr |-> hdr, words |-> words]

Ramp(n) == [i \in 1..n |-> i]
Pair(r, c) == PyTuple(<<Entry(r), Entry(c)>>)
Dims == (0 - MinDim)..MaxDim
IntShapes == {Pair(PyInt(r), PyInt(c)) : r \in Dims, c \in Dims}
OddShapes ==
    { Pair(PyInt(0), PyFloat(3, 2)), Pair(PyInt(2), PyFloat(3, 2)),
      Pair(PyFloat(2, 1), PyInt(1)), Pair(PyStr("a"), PyInt(2)),
      Pair(PyNone, PyInt(1)), PyTuple(<<Entry(PyInt(1))>>),
      PyTuple(<<Entry(PyInt(1)), Entry(PyInt(1)), Entry(PyInt(1))>>),
      PyList(<<Entry(PyInt(1)), Entry(PyInt(2))>>), PyInt(2), PyAbsent }
Descrs == {PyStr("<f4"), PyStr("<f8"), PyStr("<i8"), PyList(<<>>), PyAbsent}
Fortrans == {PyBool(TRUE), PyBool(FALSE), PyAbsent}

MagicBytes == <<147, 78, 85, 77, 80, 89>>
BaseHdr == Hdr(PyStr("<f4"), PyBool(FALSE), Pair(PyInt(1), PyInt(2)))

\* Files that differ in their framing: magic, version, length field.
FramingFiles ==
    { Written(magic, version, w, n, BaseHdr, <<0, 1>>) :
        magic \in {MagicBytes, <<0, 78, 85, 77, 80, 89>>, <<147, 78, 85, 77, 80>>, <<>>},
        version \in {<<>>, <<1>>} \cup {<<major, 0>> : major \in (0..MaxMajor) \cup {9}},
        w \in 0..4,
        n \in {Len(BaseHdr.text) - 1, Len(BaseHdr.text), Len(BaseHdr.text) + 1, 256} }

\* Well-framed files that differ in their header text and payload length.
DictHdrs ==
    {Hdr(d, f, sh) : d \in Descrs, f \in Fortrans, sh \in IntShapes \cup OddShapes}
OtherHdrs ==
    { OtherHdr(text) :
        text \in { <<Tok("lit")>>, <<Tok("name")>>, <<Tok("rbrace")>>, <<>>,
                   <<Tok("lbrace"), Item("descr", PyStr("<f8"))>> } }
HeaderFiles ==
    { Written(MagicBytes, <<major, 0>>, IF major = 1 THEN 2 ELSE 4, Len(hdr.text),
              hdr, Ramp(n)) :
        major \in {1, 2}, hdr \in DictHdrs \cup OtherHdrs, n \in 0..MaxPayload }

\* Valid files that differ in the payload's content.
RECURSIVE Words(_)
Words(n) ==
    IF n = 0 THEN {<<>>}
    ELSE Words(n - 1) \cup {Append(w, v) : w \in Words(n - 1), v \in {0, 1}}
PayloadFiles ==
    { Written(MagicBytes, <<1, 0>>, 2, Len(hdr.text), hdr, words) :
        hdr \in {Hdr(d, PyBool(FALSE), Pair(PyInt(r), PyInt(c))) :
                    d \in {PyStr("<f4"), PyStr("<f8")}, r \in 0..MaxDim, c \in 0..MaxDim},
        words \in Words(SmallPayload) }

NpyFiles == FramingFiles \cup HeaderFiles \cup PayloadFiles

\* ------------------------------------------------------- text and XML
\* A text is a sequence of characters; an optional text is an attribute or a
\* node text that may be missing (None in Python).
Some(text) == [some |-> TRUE, text |-> text]
None == [some |-> FALSE, text |-> <<>>]
\* x or ""
OrEmpty(x) == IF x.some THEN x.text ELSE <<>>

Upper == <<"A", "B", "C", "D", "E", "F", "G", "H", "I", "J", "K", "L", "M",
           "N", "O", "P", "Q", "R", "S", "T", "U", "V", "W", "X", "Y", "Z">>
Lower == <<"a", "b", "c", "d", "e", "f", "g", "h", "i", "j", "k", "l", "m",
           "n", "o", "p", "q", "r", "s", "t", "u", "v", "w", "x", "y", "z">>
Digits == <<"0", "1", "2", "3", "4", "5", "6", "7", "8", "9">>
IndexIn(seq, ch) == CHOOSE i \in 1..Len(seq) : seq[i] = ch
IsIn(seq, ch) == \E i \in 1..Len(seq) : seq[i] = ch
\* ch.isalpha() and ord(ch), for the ASCII characters of a cell reference
IsAlpha(ch) == IsIn(Upper, ch) \/ IsIn(Lower, ch)
IsDigit(ch) == IsIn(Digits, ch)
Ord(ch) ==
    IF IsIn(Upper, ch) THEN 64 + IndexIn(Upper, ch)
    ELSE IF IsIn(Lower, ch) THEN 96 + IndexIn(Lower, ch)
    ELSE IF IsIn(Digits, ch) THEN 47 + IndexIn(Digits, ch)
    ELSE 45

\* int(text): an optional sign and one or more digits; ok = FALSE is the
\* ValueError of any other text.
RECURSIVE DigitsValue(_)
DigitsValue(ds) ==
    IF ds = <<>> THEN 0
    ELSE 10 * DigitsValue(SubSeq(ds, 1, Len(ds) - 1)) + (Ord(ds[Len(ds)]) - 48)
IntOf(text) ==
    LET signed == text # <<>> /\ text[1] \in {"-", "+"}
        ds == IF signed THEN Tail(text) ELSE text
    IN  IF ds # <<>> /\ \A i \in 1..Len(ds) : IsDigit(ds[i])
        THEN [ok |-> TRUE, n |-> IF signed /\ text[1] = "-" THEN 0 - DigitsValue(ds)
                                 ELSE DigitsValue(ds)]
        ELSE [ok |-> FALSE, n |-> 0]

\* seq[i] of a Python list: a negative index counts from the end; ok = FALSE
\* is the IndexError of an index outside -len .. len - 1.
PyIndex(seq, i) ==
    LET n == Len(seq)
    IN  IF 0 <= i /\ i < n THEN [ok |-> TRUE, item |-> seq[i + 1]]
        ELSE IF 0 - n <= i /\ i < 0 THEN [ok |-> TRUE, item |-> seq[n + i + 1]]
        ELSE [ok |-> FALSE, item |-> <<>>]

\* A dict as a function; d[k] = v
EmptyDict == <<>>
DictSet(d, k, v) == (k :> v) @@ d

\* A conversion that counts the letters from zero (A = 0 .. Z = 25).
RECURSIVE col_to_number_ZeroBased(_)
col_to_number_ZeroBased(col) ==
    IF col = <<>> THEN 0
    ELSE col_to_number_ZeroBased(SubSeq(col, 1, Len(col) - 1)) * 26
           + (Ord(col[Len(col)]) - 65)

\* A lookup that falls back on the row of the least number in the grid.
DictGetOrDefault_FirstRow(d, k, default) ==
    IF k \in DOMAIN d THEN d[k]
    ELSE IF DOMAIN d # {} THEN d[CHOOSE n \in DOMAIN d : \A n2 \in DOMAIN d : n <= n2]
    ELSE default

\* d.get(k, default)
DictGetOrDefault(d, k, default) == IF k \in DOMAIN d THEN d[k] ELSE default

\* col_to_number (279-283)
RECURSIVE col_to_number(_)
col_to_number(col) ==
    IF col = <<>> THEN 0
    ELSE col_to_number(SubSeq(col, 1, Len(col) - 1)) * 26 + (Ord(col[Len(col)]) - 64)

\* "".join(ch for ch in ref if ch.isalpha())
ColumnOf(ref) == SelectSeq(ref, IsAlpha)

\* A lookup that takes the index of a shared string as 1-based.
CellText_OneBased(cell, table) ==
    IF ~cell.v.node THEN [exc |-> "", value |-> <<>>]
    ELSE IF cell.t = Some(<<"s">>)
    THEN IF ~cell.v.text.some THEN [exc |-> "TypeError", value |-> <<>>]
         ELSE IF ~IntOf(cell.v.text.text).ok THEN [exc |-> "ValueError", value |-> <<>>]
         ELSE IF ~PyIndex(table, IntOf(cell.v.text.text).n - 1).ok
         THEN [exc |-> "IndexError", value |-> <<>>]
         ELSE [exc |-> "", value |-> PyIndex(table, IntOf(cell.v.text.text).n - 1).item]
    ELSE [exc |-> "", value |-> OrEmpty(cell.v.text)]

\* The text load_xlsx_sheet takes for a cell (lines 307-313): exc names the
\* exception of a cell it cannot resolve.
CellText(cell, table) ==
    IF ~cell.v.node THEN [exc |-> "", value |-> <<>>]
    ELSE IF cell.t = Some(<<"s">>)
    THEN IF ~cell.v.text.some THEN [exc |-> "TypeError", value |-> <<>>]
         ELSE IF ~IntOf(cell.v.text.text).ok THEN [exc |-> "ValueError", value |-> <<>>]
         ELSE IF ~PyIndex(table, IntOf(cell.v.text.text).n).ok
         THEN [exc |-> "IndexError", value |-> <<>>]
         ELSE [exc |-> "", value |-> PyIndex(table, IntOf(cell.v.text.text).n).item]
    ELSE [exc |-> "", value |-> OrEmpty(cell.v.text)]

\* A reader that takes a part that is not in the archive as an empty document.
PartRead_MissingAsEmpty(present, wellFormed) ==
    IF ~present \/ ~wellFormed THEN "ParseError" ELSE ""

\* ET.fromstring(archive.read(name)): the exception of a part that is not in
\* the archive (KeyError) or is not well-formed XML (ParseError), "" for none.
PartRead(present, wellFormed) ==
    IF ~present THEN "KeyError"
    ELSE IF ~wellFormed THEN "ParseError"
    ELSE ""

\* The shared-string table of lines 291-295: si.find(".//t").text or "" for
\* each si; ok = FALSE is the AttributeError of an si without a t node.
SharedStrings(si) ==
    IF \E i \in 1..Len(si) : ~si[i].t THEN [ok |-> FALSE, table |-> <<>>]
    ELSE [ok |-> TRUE, table |-> [i \in 1..Len(si) |-> OrEmpty(si[i].text)]]

\* ------------------------------------------------------------------ state
VARIABLES
    made,           \* the file as written (load_npy_matrix's input)
    data,           \* the cells of the file at `path`
    pc,             \* the statement the call is at
    exc,            \* the exception the call ended with, "" for none
    msg,            \* what the exception's message names
    handles,        \* file and archive handles open
    pos,            \* handle.tell() in _read_header
    major,          \* version[0]
    header_len,
    header,         \* header_dict
    data_start,
    descr, shape, fortran_order,
    expected, typecode, values, matrix, index, iter,
    book,           \* the workbook (load_xlsx_sheet's input)
    strings,        \* the shared-string table
    rows,           \* the grid: row number -> column letters -> text
    rnum, row_cells, max_col, headers,
    rowi, celli,    \* rows and cells of the current row iterated so far
    colname,        \* the argument `col` of a call of col_to_number
    idx             \* the ordinal the call returned

control == <<pc, exc, msg, handles>>
hvars == <<pos, major, header_len, header, data_start>>
fvars == <<descr, shape, fortran_order>>
mvars == <<expected, typecode, values, matrix, index, iter>>
xvars == <<book, strings, rows, rnum, row_cells, max_col, headers, rowi, celli>>
cvars == <<colname, idx>>
vars == <<made, data, control, hvars, fvars, mvars, xvars, cvars>>

NpyLocalsInit ==
    /\ exc = "" /\ msg = "" /\ handles = 0
    /\ pos = 0 /\ major = 0 /\ header_len = 0 /\ header = NoHeader /\ data_start = 0
    /\ descr = PyAbsent /\ shape = PyAbsent /\ fortran_order = PyAbsent
    /\ expected = PyAbsent /\ typecode = "" /\ values = <<>> /\ matrix = <<>>
    /\ index = 0 /\ iter = 0

\* An exit that leaves the handle of the enclosing block open.
Released_None(p) == 0

\* The handles a `with` block releases when the statement at p raises: the
\* statements after handle.read(6) in _read_header (39-59) and the ones after
\* zipfile.ZipFile(path) in load_xlsx_sheet (290-296) are inside a block whose
\* handle is open; the handle a statement opens itself is closed with it.
Released(p) == IF p \in {"version", "header_len", "header_text", "sst", "sheet"} THEN 1 ELSE 0

\* raise e: the call ends; a `with` block the statement is in closes its handle.
Raise(e, m) ==
    pc' = "raised" /\ exc' = e /\ msg' = m /\ handles' = handles - Released(pc)

\* ------------------------------------------------- _read_header (33-60)
\* with path.open("rb") as handle: magic = handle.read(6)
ReadMagic ==
    /\ pc = "magic"
    /\ LET magic == Read(data, 0, 6)
       IN  IF magic # MAGIC
           THEN Raise("NpyLoadError", "magic") /\ UNCHANGED pos
           ELSE pc' = "version" /\ pos' = Len(magic) /\ handles' = handles + 1
                /\ UNCHANGED <<exc, msg>>
    /\ UNCHANGED <<cvars, made, data, major, header_len, header, data_start, fvars, mvars, xvars>>

\* version = handle.read(2); major, minor = version
ReadVersion ==
    /\ pc = "version"
    /\ LET version == Read(data, pos, 2)
       IN  IF Len(version) # 2
           THEN Raise("NpyLoadError", "version") /\ UNCHANGED <<pos, major>>
           ELSE pc' = "header_len" /\ pos' = pos + 2 /\ major' = CharCode(version[1])
                /\ UNCHANGED <<exc, msg, handles>>
    /\ UNCHANGED <<cvars, made, data, header_len, header, data_start, fvars, mvars, xvars>>

\* the header-length field: "<H" for major 1, "<I" for major 2 and 3
ReadHeaderLen ==
    /\ pc = "header_len"
    /\ LET width == LenWidth(major)
           header_len_bytes == Read(data, pos, width)
       IN  IF width = 0
           THEN Raise("NpyLoadError", "unsupported version") /\ UNCHANGED <<pos, header_len>>
           ELSE IF Len(header_len_bytes) # width
           THEN Raise("NpyLoadError", "header length") /\ UNCHANGED <<pos, header_len>>
           ELSE pc' = "header_text" /\ pos' = pos + width
                /\ header_len' = Unpack(header_len_bytes)
                /\ UNCHANGED <<exc, msg, handles>>
    /\ UNCHANGED <<cvars, made, data, major, header, data_start, fvars, mvars, xvars>>

\* header_text = handle.read(header_len).decode("latin1")
\* header_dict = ast.literal_eval(header_text); data_start = handle.tell()
ReadHeaderText ==
    /\ pc = "header_text"
    /\ LET header_text == Read(data, pos, header_len)
           header_dict == LiteralEval(header_text)
       IN  IF header_dict.kind \in {"SyntaxError", "ValueError"}
           THEN Raise(header_dict.kind, "literal_eval")
                /\ UNCHANGED <<pos, header, data_start>>
           ELSE pc' = "fields" /\ pos' = pos + Len(header_text)
                /\ header' = header_dict /\ data_start' = pos + Len(header_text)
                /\ handles' = handles - 1
                /\ UNCHANGED <<exc, msg>>
    /\ UNCHANGED <<cvars, made, data, major, header_len, fvars, mvars, xvars>>

\* ----------------------------------------------- load_npy_matrix (63-98)
\* descr = header.get("descr"); shape = header.get("shape")
\* fortran_order = header.get("fortran_order", False)
GetFields ==
    /\ pc = "fields"
    /\ IF header.kind # "dict"
       THEN Raise("AttributeError", "get") /\ UNCHANGED fvars
       ELSE pc' = "check"
            /\ descr' = DictGetOr(header.descr, PyNone)
            /\ shape' = DictGetOr(header.shape, PyNone)
            /\ fortran_order' = DictGetOr(header.fortran_order, PyBool(FALSE))
            /\ UNCHANGED <<exc, msg, handles>>
    /\ UNCHANGED <<cvars, made, data, hvars, mvars, xvars>>

\* the three checks of lines 71-76
Validate ==
    /\ pc = "check"
    /\ LET v == CheckHeader(fortran_order, shape, descr)
       IN  IF v.exc # ""
           THEN Raise(v.exc, v.msg)
           ELSE pc' = "payload" /\ UNCHANGED <<exc, msg, handles>>
    /\ UNCHANGED <<cvars, made, data, hvars, fvars, mvars, xvars>>

\* rows, cols = shape; expected = rows * cols; typecode = SUPPORTED_DTYPES[descr]
\* with path.open("rb") as handle: handle.seek(data_start); raw = handle.read()
\* values = array(typecode); values.frombytes(raw); the count check of 87-90
ReadPayload ==
    /\ pc = "payload"
    /\ LET rows_ == Lift(shape.items[1])
           cols == Lift(shape.items[2])
           product == PyMul(rows_, cols)
           code == SUPPORTED_DTYPES[descr.s]
           raw == Read(data, data_start, Len(data))
           decoded == FromBytes(code, raw)
       IN  IF product.ty = "TypeError"
           THEN Raise("TypeError", "rows * cols") /\ UNCHANGED <<expected, typecode, values>>
           ELSE IF ~FromBytesFits(code, raw)
           THEN Raise("ValueError", "frombytes") /\ UNCHANGED <<expected, typecode, values>>
           ELSE IF PyNotEqualInt(Len(decoded), product)
           THEN Raise("NpyLoadError", "element count")
                /\ UNCHANGED <<expected, typecode, values>>
           ELSE pc' = "range" /\ expected' = product /\ typecode' = code
                /\ values' = decoded /\ UNCHANGED <<exc, msg, handles>>
    /\ UNCHANGED <<cvars, made, data, hvars, fvars, matrix, index, iter, xvars>>

\* matrix = []; index = 0; for _ in range(rows):
EnterLoop ==
    /\ pc = "range"
    /\ IF ~IsInt(Lift(shape.items[1]))
       THEN Raise("TypeError", "range") /\ UNCHANGED <<matrix, index, iter>>
       ELSE pc' = "loop" /\ matrix' = <<>> /\ index' = 0 /\ iter' = 0
            /\ UNCHANGED <<exc, msg, handles>>
    /\ UNCHANGED <<cvars, made, data, hvars, fvars, expected, typecode, values, xvars>>

\* row = values[index : index + cols]; matrix.append([float(v) for v in row])
\* index += cols.  The values of an array("f") or array("d") are Python
\* floats already, so float(v) is v.
LoopRow ==
    /\ pc = "loop"
    /\ iter < shape.items[1].num
    /\ LET cols == Lift(shape.items[2])
       IN  IF ~IsInt(cols)
           THEN Raise("TypeError", "slice") /\ UNCHANGED <<matrix, index, iter>>
           ELSE pc' = "loop"
                /\ matrix' = Append(matrix, PySlice(values, index, index + cols.num))
                /\ index' = index + cols.num /\ iter' = iter + 1
                /\ UNCHANGED <<exc, msg, handles>>
    /\ UNCHANGED <<cvars, made, data, hvars, fvars, expected, typecode, values, xvars>>

\* return matrix
Return ==
    /\ pc = "loop"
    /\ iter >= shape.items[1].num
    /\ pc' = "returned"
    /\ UNCHANGED <<cvars, made, data, exc, msg, handles, hvars, fvars, mvars, xvars>>

XlsxLocalsInit ==
    /\ strings = <<>> /\ rows = <<>> /\ rnum = 0 /\ row_cells = <<>>
    /\ max_col = 0 /\ headers = <<>> /\ rowi = 0 /\ celli = 0

XlsxIdle ==
    /\ book = <<>> /\ XlsxLocalsInit

ColIdle ==
    /\ colname = <<>> /\ idx = 0

InitNpy ==
    /\ made \in NpyFiles
    /\ data = Layout(made)
    /\ pc = "magic"
    /\ NpyLocalsInit
    /\ XlsxIdle
    /\ ColIdle

NextNpy ==
    \/ ReadMagic \/ ReadVersion \/ ReadHeaderLen \/ ReadHeaderText
    \/ GetFields \/ Validate \/ ReadPayload \/ EnterLoop \/ LoopRow \/ Return

SpecNpy == InitNpy /\ [][NextNpy]_vars

\* ------------------------------------------------- the workbooks read
\* A workbook: whether the file is a zip archive, whether it holds the parts
\* xl/sharedStrings.xml and the worksheet, whether each part is well-formed
\* XML, the si nodes of the first and the row nodes of the second.
SI(text) == [t |-> TRUE, text |-> Some(text)]
SIEmpty == [t |-> TRUE, text |-> None]
SINoT == [t |-> FALSE, text |-> None]
NoV == [node |-> FALSE, text |-> None]
VEmpty == [node |-> TRUE, text |-> None]
V(text) == [node |-> TRUE, text |-> Some(text)]
XCell(ref, t, v) == [r |-> ref, t |-> t, v |-> v]
XRow(r, cells) == [r |-> r, cells |-> cells]
Book(isZip, hasSST, sstOK, si, hasSheet, sheetOK, sheetRows) ==
    [isZip |-> isZip, hasSST |-> hasSST, sstOK |-> sstOK, si |-> si,
     hasSheet |-> hasSheet, sheetOK |-> sheetOK, rows |-> sheetRows]

MaxIndex == 3
MaxCells == 2
MaxItems == 2
MaxRows == 2

RECURSIVE NatText(_)
NatText(n) ==
    IF n < 10 THEN <<Digits[n + 1]>> ELSE NatText(n \div 10) \o <<Digits[(n % 10) + 1]>>
IntText(i) == IF i < 0 THEN <<"-">> \o NatText(0 - i) ELSE NatText(i)

RECURSIVE SeqsUpTo(_, _)
SeqsUpTo(S, n) ==
    IF n = 0 THEN {<<>>}
    ELSE SeqsUpTo(S, n - 1) \cup {Append(q, x) : q \in SeqsUpTo(S, n - 1), x \in S}

Alpha == <<"a", "l", "p", "h", "a">>
Beta == <<"b", "e", "t", "a">>
TwoStrings == <<SI(Alpha), SI(Beta)>>
\* the worksheet of the spec's example: A1 = shared string 1, B1 = "42"
ExampleRows ==
    << XRow(Some(<<"1">>),
            << XCell(<<"A", "1">>, Some(<<"s">>), V(<<"1">>)),
               XCell(<<"B", "1">>, None, V(<<"4", "2">>)) >>) >>

\* Workbooks that differ in the archive and its parts.
ArchiveBooks ==
    { Book(isZip, hasSST, sstOK, si, hasSheet, sheetOK, ExampleRows) :
        isZip \in BOOLEAN, hasSST \in BOOLEAN, sstOK \in BOOLEAN,
        si \in {TwoStrings, <<SINoT>>}, hasSheet \in BOOLEAN, sheetOK \in BOOLEAN }

\* Workbooks that differ in the shared-string part.
SstBooks ==
    { Book(TRUE, TRUE, TRUE, si, TRUE, TRUE, ExampleRows) :
        si \in SeqsUpTo({SI(Alpha), SI(Beta), SIEmpty, SINoT}, MaxItems) }

\* Workbooks that differ in the type and value of the cells of one row; the
\* cell at position j is in column j.
Contents ==
    {<<Some(<<"s">>), v>> :
        v \in {NoV, VEmpty, V(<<"x">>), V(<<"4", "2">>), V(<<"5">>)}
              \cup {V(IntText(i)) : i \in (0 - MaxIndex)..MaxIndex}}
    \cup {<<None, v>> : v \in {NoV, VEmpty, V(<<"4", "2">>)}}
    \cup {<<Some(<<"n">>), v>> : v \in {NoV, V(<<"4", "2">>)}}
CellsOf(contents) ==
    [j \in 1..Len(contents) |->
        XCell(<<Upper[j], "1">>, contents[j][1], contents[j][2])]
CellBooks ==
    { Book(TRUE, TRUE, TRUE, si, TRUE, TRUE, <<XRow(Some(<<"1">>), CellsOf(contents))>>) :
        si \in {<<>>, TwoStrings}, contents \in SeqsUpTo(Contents, MaxCells) }

\* Workbooks that differ in the row nodes and the cell references.
Refs == { <<"A", "1">>, <<"B", "2">>, <<"a", "b", "1", "2">>, <<"A", "1", "B">> }
RowNodes ==
    { XRow(r, cells) :
        r \in {Some(<<"1">>), Some(<<"2">>), None},
        cells \in {<<>>} \cup {<<XCell(ref, None, V(ref))>> : ref \in Refs}
                  \cup {<< XCell(<<"A", "1">>, None, V(<<"1">>)),
                           XCell(<<"A", "1">>, None, V(<<"2">>)) >>} }
LayoutBooks ==
    { Book(TRUE, TRUE, TRUE, TwoStrings, TRUE, TRUE, sheetRows) :
        sheetRows \in SeqsUpTo(RowNodes, MaxRows) }

Books == ArchiveBooks \cup SstBooks \cup CellBooks \cup LayoutBooks

\* ------------------------------------------- load_xlsx_sheet (286-323)
\* with zipfile.ZipFile(path) as archive:
OpenArchive ==
    /\ pc = "open"
    /\ IF ~book.isZip
       THEN Raise("BadZipFile", "not a zip file")
       ELSE pc' = "sst" /\ handles' = handles + 1 /\ UNCHANGED <<exc, msg>>
    /\ UNCHANGED <<cvars, made, data, hvars, fvars, mvars, xvars>>

\* sst = ET.fromstring(archive.read("xl/sharedStrings.xml")); strings = [...]
ReadSharedStrings ==
    /\ pc = "sst"
    /\ IF PartRead(book.hasSST, book.sstOK) # ""
       THEN Raise(PartRead(book.hasSST, book.sstOK), "xl/sharedStrings.xml")
            /\ UNCHANGED strings
       ELSE IF ~SharedStrings(book.si).ok
       THEN Raise("AttributeError", "text") /\ UNCHANGED strings
       ELSE pc' = "sheet" /\ strings' = SharedStrings(book.si).table
            /\ UNCHANGED <<exc, msg, handles>>
    /\ UNCHANGED <<cvars, made, data, hvars, fvars, mvars, book, rows, rnum, row_cells,
                   max_col, headers, rowi, celli>>

\* sheet = ET.fromstring(archive.read(sheet_name)); the with block ends
ReadSheet ==
    /\ pc = "sheet"
    /\ IF PartRead(book.hasSheet, book.sheetOK) # ""
       THEN Raise(PartRead(book.hasSheet, book.sheetOK), "sheet")
       ELSE pc' = "row" /\ handles' = handles - 1 /\ UNCHANGED <<exc, msg>>
    /\ UNCHANGED <<cvars, made, data, hvars, fvars, mvars, xvars>>

\* for row in sheet.findall(...): rnum = int(row.attrib["r"]); row_cells = {}
NextRow ==
    /\ pc = "row"
    /\ rowi < Len(book.rows)
    /\ LET row == book.rows[rowi + 1]
       IN  IF ~row.r.some
           THEN Raise("KeyError", "r") /\ UNCHANGED <<rnum, row_cells, celli>>
           ELSE IF ~IntOf(row.r.text).ok
           THEN Raise("ValueError", "r") /\ UNCHANGED <<rnum, row_cells, celli>>
           ELSE pc' = "cell" /\ rnum' = IntOf(row.r.text).n
                /\ row_cells' = EmptyDict /\ celli' = 0
                /\ UNCHANGED <<exc, msg, handles>>
    /\ UNCHANGED <<cvars, made, data, hvars, fvars, mvars, book, strings, rows, max_col,
                   headers, rowi>>

\* for cell in row.findall("a:c", ns): lines 305-315
NextCell ==
    /\ pc = "cell"
    /\ celli < Len(book.rows[rowi + 1].cells)
    /\ LET cell == book.rows[rowi + 1].cells[celli + 1]
           col == ColumnOf(cell.r)
           got == CellText(cell, strings)
       IN  IF got.exc # ""
           THEN Raise(got.exc, "value") /\ UNCHANGED <<row_cells, max_col, celli>>
           ELSE pc' = "cell" /\ row_cells' = DictSet(row_cells, col, got.value)
                /\ max_col' = (IF col_to_number(col) > max_col
                               THEN col_to_number(col) ELSE max_col)
                /\ celli' = celli + 1
                /\ UNCHANGED <<exc, msg, handles>>
    /\ UNCHANGED <<cvars, made, data, hvars, fvars, mvars, book, strings, rows, rnum,
                   headers, rowi>>

\* rows[rnum] = row_cells
EndRow ==
    /\ pc = "cell"
    /\ celli >= Len(book.rows[rowi + 1].cells)
    /\ pc' = "row" /\ rows' = DictSet(rows, rnum, row_cells) /\ rowi' = rowi + 1
    /\ UNCHANGED <<cvars, made, data, exc, msg, handles, hvars, fvars, mvars, book, strings,
                   rnum, row_cells, max_col, headers, celli>>

\* for col, value in rows.get(1, {}).items(): headers[col] = value
\* return headers, rows
ReturnSheet ==
    /\ pc = "row"
    /\ rowi >= Len(book.rows)
    /\ pc' = "returned"
    /\ headers' = DictGetOrDefault(rows, 1, EmptyDict)
    /\ UNCHANGED <<cvars, made, data, exc, msg, handles, hvars, fvars, mvars, book, strings,
                   rows, rnum, row_cells, max_col, rowi, celli>>

InitXlsx ==
    /\ book \in Books
    /\ pc = "open"
    /\ made = <<>> /\ data = <<>>
    /\ NpyLocalsInit
    /\ XlsxLocalsInit
    /\ ColIdle

NextXlsx ==
    \/ OpenArchive \/ ReadSharedStrings \/ ReadSheet
    \/ NextRow \/ NextCell \/ EndRow \/ ReturnSheet

SpecXlsx == InitXlsx /\ [][NextXlsx]_vars

\* ------------------------------------------------ a call of either reader
InitLoad == InitNpy \/ InitXlsx
NextLoad == NextNpy \/ NextXlsx
SpecLoad == InitLoad /\ [][NextLoad]_vars

\* ------------------------------------------- col_to_number (279-283)
MaxLetters == 2

\* The column names the conversion is called with: the non-empty strings of
\* the letters A..Z.
ColumnNames == SeqsUpTo({Upper[i] : i \in 1..26}, MaxLetters) \ {<<>>}

\* idx = col_to_number(col)
CallColToNumber ==
    /\ pc = "call"
    /\ idx' = col_to_number(colname)
    /\ pc' = "returned"
    /\ UNCHANGED <<colname, made, data, exc, msg, handles, hvars, fvars, mvars, xvars>>

InitCol ==
    /\ colname \in ColumnNames
    /\ idx = 0
    /\ pc = "call"
    /\ made = <<>> /\ data = <<>>
    /\ NpyLocalsInit
    /\ XlsxIdle

NextCol == CallColToNumber

SpecCol == InitCol /\ [][NextCol]_vars

\* ======================================================== array files
\* What the format says of a file as written (spec sections 3, 4.1 and 6).
WellFramed(m) ==
    /\ m.magic = MagicBytes
    /\ Len(m.version) = 2 /\ m.version[1] \in {1, 2, 3}
    /\ m.lenWidth = (IF m.version[1] = 1 THEN 2 ELSE 4)
    /\ m.lenValue = Len(m.hdr.text)
NonNegInt(e) == e.ty = "int" /\ e.num >= 0
ValidShape(sh) ==
    sh.ty = "tuple" /\ Len(sh.items) = 2 /\ \A i \in 1..2 : NonNegInt(sh.items[i])
SupportedDescr(d) == d.ty = "str" /\ d.s \in {"<f4", "<f8"}
NotFortran(f) == f.ty = "absent" \/ f = PyBool(FALSE)
ValidHeader(m) ==
    /\ WellFramed(m) /\ m.hdr.kind = "dict"
    /\ ValidShape(m.hdr.shape) /\ SupportedDescr(m.hdr.descr)
    /\ NotFortran(m.hdr.fortran_order)
ElemWords(m) == IF m.hdr.descr.s = "<f8" THEN 2 ELSE 1
DeclRows(m) == m.hdr.shape.items[1].num
DeclCols(m) == m.hdr.shape.items[2].num
WholeElements(m) == Len(m.words) % ElemWords(m) = 0
PayloadCount(m) == Len(m.words) \div ElemWords(m)
PayloadElem(m, i) ==
    IF ElemWords(m) = 2 THEN m.words[2 * i - 1] + 256 * m.words[2 * i] ELSE m.words[i]
ValidArrayFile(m) ==
    /\ ValidHeader(m) /\ WholeElements(m)
    /\ PayloadCount(m) = DeclRows(m) * DeclCols(m)

RECURSIVE Flatten(_)
Flatten(mat) == IF mat = <<>> THEN <<>> ELSE Head(mat) \o Flatten(Tail(mat))
At(mat, r, c) == IF r <= Len(mat) /\ c <= Len(mat[r]) THEN <<mat[r][c]>> ELSE <<>>

\* C1: a valid 2D, non-Fortran float32/float64 file of N = rows * cols
\* elements is read without failure, and in the matrix returned the flat
\* payload element i is at row i div cols, column i mod cols; the rows
\* concatenated in order are the N payload values in their order.
C1_RowMajorRoundTrip ==
    ValidArrayFile(made) =>
        /\ pc # "raised"
        /\ pc = "returned" =>
             /\ \A i \in 0..(PayloadCount(made) - 1) :
                    At(matrix, (i \div DeclCols(made)) + 1, (i % DeclCols(made)) + 1)
                        = <<PayloadElem(made, i + 1)>>
             /\ Flatten(matrix) = [i \in 1..PayloadCount(made) |-> PayloadElem(made, i)]
C1_Witness ==
    /\ pc = "returned" /\ ValidArrayFile(made)
    /\ DeclRows(made) = 2 /\ DeclCols(made) = 2 /\ made.hdr.descr.s = "<f8"
    /\ matrix[2][1] # matrix[1][2]

\* C2: whenever a matrix is returned, it has exactly the declared `rows` rows,
\* each of exactly `cols` elements, and rows * cols elements in all, as many
\* as the payload holds.
C2_ShapeOfResult ==
    pc = "returned" =>
        LET r == shape.items[1]
            c == shape.items[2]
        IN  /\ Len(matrix) * r.den = r.num
            /\ \A i \in 1..Len(matrix) : Len(matrix[i]) * c.den = c.num
            /\ Len(Flatten(matrix)) * r.den * c.den = r.num * c.num
            /\ Len(Flatten(matrix)) = Len(values)

\* C3: an otherwise valid file whose payload holds a number of elements other
\* than rows * cols is refused with NpyLoadError for the element count, and
\* no matrix is returned.
CountMismatch(m) ==
    ValidHeader(m) /\ WholeElements(m) /\ PayloadCount(m) # DeclRows(m) * DeclCols(m)
AfterFields == pc \in {"check", "payload", "range", "loop", "returned", "raised"}
C4_FortranOrderFails ==
    /\ header.kind = "dict" /\ header.fortran_order = PyBool(TRUE) =>
         /\ pc \notin {"payload", "range", "loop", "returned"}
         /\ pc = "raised" => exc = "NpyLoadError"
    /\ header.kind = "dict" /\ header.fortran_order = PyAbsent /\ AfterFields =>
         /\ fortran_order = PyBool(FALSE)
         /\ msg # "fortran_order"
C4_Witness ==
    /\ pc = "raised" /\ exc = "NpyLoadError"
    /\ header.kind = "dict" /\ header.fortran_order = PyBool(TRUE)
    /\ ~ValidShape(header.shape) /\ ~SupportedDescr(header.descr)

\* C5: after the magic and the two version bytes, the header length is the
\* next 2 bytes, unsigned little-endian, for major 1, and the next 4 bytes
\* for major 2 or 3; any other major is refused with NpyLoadError for the
\* version, and nothing after the version is read.
ByteAt(i) == CharCode(data[i])
VersionRead == Read(data, 0, 6) = MAGIC /\ Len(data) >= 8
C5_HeaderLenWidth ==
    /\ pc = "header_text" =>
         /\ major \in {1, 2, 3}
         /\ major = 1 => header_len = ByteAt(9) + 256 * ByteAt(10) /\ pos = 10
         /\ major \in {2, 3} =>
              /\ header_len = ByteAt(9) + 256 * ByteAt(10) + 65536 * ByteAt(11)
                                + 16777216 * ByteAt(12)
              /\ pos = 12
    /\ VersionRead /\ ByteAt(7) \notin {1, 2, 3} =>
         /\ pc \in {"magic", "version", "header_len", "raised"}
         /\ pc = "raised" =>
              /\ exc = "NpyLoadError" /\ msg = "unsupported version"
              /\ pos = 8 /\ header = NoHeader /\ values = <<>>
C5_Witness ==
    /\ pc = "header_text" /\ major = 2 /\ header_len = made.lenValue
    /\ made.lenValue = 256

\* C6: a header blob that does not parse as a literal dictionary makes the
\* read fail with NpyLoadError and with no other kind of error.
BlobUnparsable(m) ==
    /\ WellFramed(m)
    /\ m.hdr.kind # "dict"
C6_MalformedHeaderIsFormatError ==
    BlobUnparsable(made) =>
        /\ pc # "returned"
        /\ pc = "raised" => exc = "NpyLoadError"

\* C7: a header is accepted only if shape is a 2-tuple of non-negative
\* integers and descr is "<f4" or "<f8"; any other header is refused with
\* NpyLoadError naming the field, and no matrix is returned.
C7_OnlyValidHeadersAccepted ==
    header.kind = "dict" /\ ~Truthy(DictGetOr(header.fortran_order, PyBool(FALSE)))
      /\ ~(ValidShape(header.shape) /\ SupportedDescr(header.descr)) =>
        /\ pc # "returned"
        /\ pc = "raised" => exc = "NpyLoadError" /\ msg \in {"shape", "descr"}

\* ========================================================== workbooks
\* The text the format gives a cell (spec section 4.2, step 4), for a cell
\* whose shared-string index, if it has one, is a position of the table.
TableOf(b) == [i \in 1..Len(b.si) |-> OrEmpty(b.si[i].text)]
IsShared(cell) == cell.v.node /\ cell.t = Some(<<"s">>)
IndexOf(cell) == IntOf(cell.v.text.text)
HasIndex(cell) == IsShared(cell) /\ cell.v.text.some /\ IndexOf(cell).ok
ValidIndex(cell, b) ==
    HasIndex(cell) /\ 0 <= IndexOf(cell).n /\ IndexOf(cell).n < Len(b.si)
Resolvable(cell, b) == IsShared(cell) => ValidIndex(cell, b)
TextOf(cell, b) ==
    IF ~cell.v.node THEN <<>>
    ELSE IF IsShared(cell) THEN TableOf(b)[IndexOf(cell).n + 1]
    ELSE OrEmpty(cell.v.text)
Lookup(d, k) == IF k \in DOMAIN d THEN <<d[k]>> ELSE <<>>
Letters(cell) == SelectSeq(cell.r, IsAlpha)
\* the last row node of its number, the last cell of its column in the row
LastOfNumber(b, k) ==
    \A k2 \in (k + 1)..Len(b.rows) :
        IntOf(b.rows[k2].r.text).n # IntOf(b.rows[k].r.text).n
LastOfColumn(cells, j) ==
    \A j2 \in (j + 1)..Len(cells) : Letters(cells[j2]) # Letters(cells[j])

\* C8: the text stored for a cell is the shared-string entry at the value
\* node's index for a cell of type "s", the value node's raw text for a cell
\* of another or no type, and the empty string, as an entry that is present,
\* for a cell without a value node; the example of the spec gives
\* headerRow = {"A": "beta", "B": "42"}.
C8_CellText ==
    /\ pc = "cell" /\ celli > 0 =>
         LET cell == book.rows[rowi + 1].cells[celli]
         IN  Resolvable(cell, book) =>
                 Lookup(row_cells, Letters(cell)) = <<TextOf(cell, book)>>
    /\ pc = "returned" =>
         \A k \in 1..Len(book.rows) : \A j \in 1..Len(book.rows[k].cells) :
            LET cell == book.rows[k].cells[j]
            IN  LastOfNumber(book, k) /\ LastOfColumn(book.rows[k].cells, j)
                  /\ Resolvable(cell, book) =>
                    /\ IntOf(book.rows[k].r.text).n \in DOMAIN rows
                    /\ Lookup(rows[IntOf(book.rows[k].r.text).n], Letters(cell))
                         = <<TextOf(cell, book)>>
    /\ pc = "returned" /\ book.si = TwoStrings /\ book.rows = ExampleRows =>
         headers = (<<"A">> :> Beta) @@ (<<"B">> :> <<"4", "2">>)
C8_Witness ==
    /\ pc = "returned" /\ book.si = TwoStrings
    /\ Len(book.rows) = 1 /\ Len(book.rows[1].cells) = 2
    /\ ValidIndex(book.rows[1].cells[1], book)
    /\ ~book.rows[1].cells[2].v.node
    /\ rows[1][<<"A">>] = Beta /\ rows[1][<<"B">>] = <<>>

\* C9: a cell of type "s" whose index is not a position of the shared-string
\* table (not in 0 .. length - 1) makes the whole read fail: no headerRow or
\* grid is returned, and the cell is resolved to no table entry.
BadIndex(cell, b) == HasIndex(cell) /\ ~ValidIndex(cell, b)
C9_BadIndexFails ==
    (\E k \in 1..Len(book.rows) : \E j \in 1..Len(book.rows[k].cells) :
        BadIndex(book.rows[k].cells[j], book))
      => pc # "returned"

SharedStringsFailed ==
    \/ exc = "ParseError" /\ msg = "xl/sharedStrings.xml"
    \/ exc = "AttributeError" /\ msg = "text"
Digit(ch) == CHOOSE d \in 1..26 : Upper[d] = ch
RECURSIVE Pow26(_)
Pow26(n) == IF n = 0 THEN 1 ELSE 26 * Pow26(n - 1)
RECURSIVE WeightedSum(_, _)
WeightedSum(s, i) ==
    IF i > Len(s) THEN 0
    ELSE Digit(s[i]) * Pow26(Len(s) - i) + WeightedSum(s, i + 1)
\* the letters of an ordinal: the inverse of the numeral
RECURSIVE NumberToCol(_)
NumberToCol(n) ==
    IF n <= 0 THEN <<>>
    ELSE NumberToCol((n - 1) \div 26) \o <<Upper[((n - 1) % 26) + 1]>>
AllUpper(s) == s # <<>> /\ \A i \in 1..Len(s) : IsIn(Upper, s[i])

\* C11: col_to_number maps a non-empty string of the letters A..Z to its
\* bijective base-26 value, digits A = 1 .. Z = 26, most significant letter
\* first: value(s + c) = 26 * value(s) + digit(c); "A" is 1, "Z" 26, "AA" 27,
\* "AZ" 52; the letters are recovered from the ordinal, so distinct strings
\* have distinct ordinals.
C11_ColToNumber ==
    pc = "returned" /\ AllUpper(colname) =>
        /\ idx = WeightedSum(colname, 1)
        /\ idx = 26 * col_to_number(SubSeq(colname, 1, Len(colname) - 1))
                   + Digit(colname[Len(colname)])
        /\ colname = <<"A">> => idx = 1
        /\ colname = <<"Z">> => idx = 26
        /\ colname = <<"A", "A">> => idx = 27
        /\ colname = <<"A", "Z">> => idx = 52
        /\ NumberToCol(idx) = colname
C11_Witness ==
    pc = "returned" /\ colname = <<"A", "Z">> /\ idx = 52

\* ============================================================ headerRow
\* A workbook no step of the read fails on, and one without a row node
\* numbered 1.
CellReads(cell, b) == CellText(cell, TableOf(b)).exc = ""
Readable(b) ==
    /\ b.isZip /\ b.hasSST /\ b.sstOK /\ b.hasSheet /\ b.sheetOK
    /\ \A i \in 1..Len(b.si) : b.si[i].t
    /\ \A k \in 1..Len(b.rows) :
          /\ b.rows[k].r.some /\ IntOf(b.rows[k].r.text).ok
          /\ \A j \in 1..Len(b.rows[k].cells) : CellReads(b.rows[k].cells[j], b)
RowNumbers(b) == {IntOf(b.rows[k].r.text).n : k \in 1..Len(b.rows)}
NoRowOne(b) == 1 \notin RowNumbers(b)

\* C12: the headerRow returned has the column keys and the values of the
\* grid's row 1; a worksheet without a row numbered 1 is read without an
\* error, the headerRow is the empty mapping and the grid holds the other
\* rows.
C12_HeaderRow ==
    /\ pc = "returned" /\ 1 \in DOMAIN rows =>
         /\ DOMAIN headers = DOMAIN rows[1]
         /\ \A c \in DOMAIN headers : headers[c] = rows[1][c]
    /\ Readable(book) /\ NoRowOne(book) =>
         /\ pc # "raised"
         /\ pc = "returned" =>
              /\ headers = EmptyDict /\ DOMAIN headers = {}
              /\ DOMAIN rows = RowNumbers(book)
C12_Witness ==
    /\ pc = "returned" /\ NoRowOne(book)
    /\ DOMAIN rows = {2} /\ DOMAIN rows[2] # {} /\ headers = EmptyDict

\* ============================================================== handles
\* C13: when a call of load_npy_matrix or load_xlsx_sheet has ended, with a
\* result or with a failure at any step, no file or archive handle the call
\* opened is still open.
Ended == pc \in {"returned", "raised"}
C13_HandlesReleased ==
    /\ handles \in {0, 1}
    /\ Ended => handles = 0
C13_Witness ==
    /\ pc = "raised" /\ handles = 0
    /\ \/ exc = "SyntaxError" /\ msg = "literal_eval"
       \/ exc = "ParseError" /\ msg = "sheet"

\* ======================================================= shared strings
\* C14: the shared-string table has one entry for each si node, in document
\* order, each the text of the item, and the empty string for an item with
\* an empty text node or with no text node; such an item is no error and
\* shifts no index.
SstWalked == pc \in {"sheet", "row", "cell", "returned"}
C14_SharedStringTable ==
    book.isZip /\ book.hasSST /\ book.sstOK =>
        /\ ~(pc = "raised" /\ msg \in {"xl/sharedStrings.xml", "text"})
        /\ SstWalked =>
             /\ Len(strings) = Len(book.si)
             /\ \A i \in 1..Len(book.si) : strings[i] = OrEmpty(book.si[i].text)

\* ======================================================= cell placement
\* The row number a cell reference carries: its numeric run.
RefDigits(cell) == SelectSeq(cell.r, IsDigit)
RefRow(cell) == IntOf(RefDigits(cell)).n
RowOf(b, k) == IntOf(b.rows[k].r.text).n
Mismatched(b, k, j) ==
    /\ b.rows[k].r.some /\ IntOf(b.rows[k].r.text).ok
    /\ RefDigits(b.rows[k].cells[j]) # <<>>
    /\ RefRow(b.rows[k].cells[j]) # RowOf(b, k)

\* C15: a cell whose reference carries a row number other than the number of
\* its row node is no error, and the cell is in the grid at the row number of
\* its reference, not at the number of the row node.
C15_CellRefRowPlacement ==
    \A k \in 1..Len(book.rows) : \A j \in 1..Len(book.rows[k].cells) :
        Mismatched(book, k, j) /\ Readable(book) =>
            /\ pc # "raised"
            /\ pc = "returned" =>
                 /\ RefRow(book.rows[k].cells[j]) \in DOMAIN rows
                 /\ Letters(book.rows[k].cells[j])
                      \in DOMAIN rows[RefRow(book.rows[k].cells[j])]

\* ========================================================== column keys
\* The canonical column letters of a reference: its leading alphabetic run,
\* in uppercase.
RECURSIVE LeadingAlpha(_)
LeadingAlpha(ref) ==
    IF ref = <<>> \/ ~IsAlpha(Head(ref)) THEN <<>>
    ELSE <<Head(ref)>> \o LeadingAlpha(Tail(ref))
ToUpper(s) ==
    [i \in 1..Len(s) |-> IF IsIn(Lower, s[i]) THEN Upper[IndexIn(Lower, s[i])] ELSE s[i]]
Canonical(cell) == ToUpper(LeadingAlpha(cell.r))
OnlyUpper(key) == \A i \in 1..Len(key) : IsIn(Upper, key[i])
CanonicalKeys(b, n) ==
    UNION { { Canonical(b.rows[k].cells[j]) : j \in 1..Len(b.rows[k].cells) } :
              k \in {k2 \in 1..Len(b.rows) : RowOf(b, k2) = n} }

\* C16: every column key of the grid and of the headerRow returned is the
\* uppercase form of the leading alphabetic run of a cell's reference: the
\* keys hold uppercase letters only, "ab12" is keyed "AB", and a letter after
\* the numeric run of a reference is not in the key.
C16_ColumnKeysCanonical ==
    pc = "returned" =>
        /\ \A n \in DOMAIN rows : \A key \in DOMAIN rows[n] :
              OnlyUpper(key) /\ key \in CanonicalKeys(book, n)
        /\ \A key \in DOMAIN headers :
              OnlyUpper(key) /\ key \in CanonicalKeys(book, 1)
        /\ \A k \in 1..Len(book.rows) : \A j \in 1..Len(book.rows[k].cells) :
              LastOfNumber(book, k) =>
                  Canonical(book.rows[k].cells[j]) \in DOMAIN rows[RowOf(book, k)]

\* ============================================================ every cell
\* C17: after a read that succeeds, every cell node is in the grid: for a
\* row node numbered n and a cell of it with column letters L, grid[n] is
\* there and has the key L, also when several row nodes have the number n (a
\* later row node adds to the cells of an earlier one).
C17_EveryCellInGrid ==
    pc = "returned" =>
        \A k \in 1..Len(book.rows) : \A j \in 1..Len(book.rows[k].cells) :
            /\ RowOf(book, k) \in DOMAIN rows
            /\ Letters(book.rows[k].cells[j]) \in DOMAIN rows[RowOf(book, k)]

====
